---------------------------- MODULE Spec2Model ----------------------------
(***************************************************************************)
(* Model of getconnected.py: a command-line tool that resolves MAC         *)
(* addresses to device details through a vendor REST API and writes the    *)
(* result to a CSV file.                                                   *)
(*                                                                         *)
(* Python strings are modelled as sequences of one-character strings, so   *)
(* that the regular expression, str.strip() and dictionary keys are        *)
(* computed character by character.  Python dicts returned by the API are  *)
(* functions from field names to values; the ordered dict built for a      *)
(* report row is a sequence of <<key, value>> pairs.                       *)
(***************************************************************************)
EXTENDS Integers, Sequences, FiniteSets, TLC

(***************************************************************************)
(* Bounds of the model.                                                    *)
(***************************************************************************)
\* largest number of lines in the input file
MaxLines == 2

(***************************************************************************)
(* String literals used by the program and by the environment.             *)
(***************************************************************************)
NL == "\n"
NA == <<"N", "/", "A">>
Wired == <<"W", "i", "r", "e", "d">>
Wireless == <<"W", "i", "r", "e", "l", "e", "s", "s">>

MAC1 == <<"A", "A", ":", "B", "B", ":", "C", "C", ":", "D", "D", ":", "E", "E", ":", "F", "F">>
MAC2 == <<"a", "a", "-", "b", "b", "-", "c", "c", "-", "d", "d", "-", "e", "e", "-", "0", "f">>
MIXED == <<"A", "A", ":", "B", "B", "-", "C", "C", ":", "D", "D", ":", "E", "E", ":", "F", "F">>
BADMAC == <<"Z", "Z", ":", "Z", "Z", ":", "Z", "Z", ":", "Z", "Z", ":", "Z", "Z", ":", "Z", "Z">>
DESK1 == <<"d", "e", "s", "k", "1">>
TEN == <<"1", "0">>
SERIAL1 == <<"Q", "2", "X", "X">>
CORP == <<"c", "o", "r", "p">>
IPADDR == <<"1", "0", ".", "0", ".", "0", ".", "7">>
PORT == <<"1", "2">>
SW1 == <<"s", "w", "1">>
MS120 == <<"M", "S", "1", "2", "0">>

(***************************************************************************)
(* validate_mac_address: re.compile(r'^([0-9A-Fa-f]{2}[:-]){5}             *)
(* ([0-9A-Fa-f]{2})$').match(mac).                                         *)
(***************************************************************************)
HexDigits == {"0", "1", "2", "3", "4", "5", "6", "7", "8", "9",
              "A", "B", "C", "D", "E", "F", "a", "b", "c", "d", "e", "f"}

\* the character class [:-]
SeparatorClass == {":", "-"}

\* number of repetitions of the group ([0-9A-Fa-f]{2}[:-])
GroupRepeat == 5

\* length of a text matched by the pattern up to '$': {5} groups of three
\* characters and a last group of two
PatternLen == 3 * GroupRepeat + 2

\* position p of the pattern: a separator class at every third position,
\* a hexadecimal digit elsewhere
PatternAt(p, ch) == IF p % 3 = 0 THEN ch \in SeparatorClass ELSE ch \in HexDigits

\* Python's '$' (without re.MULTILINE) matches at the end of the string and
\* also just before a newline that is the last character of the string.
DollarAt(s, n) == n = Len(s) \/ (n + 1 = Len(s) /\ s[Len(s)] = NL)

validate_mac_address(mac) ==
    /\ Len(mac) >= PatternLen
    /\ \A p \in 1..PatternLen : PatternAt(p, mac[p])
    /\ DollarAt(mac, PatternLen)

(***************************************************************************)
(* str.strip(): removes leading and trailing whitespace.                   *)
(***************************************************************************)
Whitespace == {" ", "\t", "\n", "\r"}

RECURSIVE lstrip(_)
lstrip(s) == IF Len(s) > 0 /\ Head(s) \in Whitespace THEN lstrip(Tail(s)) ELSE s

RECURSIVE rstrip(_)
rstrip(s) == IF Len(s) > 0 /\ s[Len(s)] \in Whitespace
             THEN rstrip(SubSeq(s, 1, Len(s) - 1)) ELSE s

strip(s) == rstrip(lstrip(s))

\* [f(x) for x in seq]
MapStrip(lines) == [i \in 1..Len(lines) |-> strip(lines[i])]

(***************************************************************************)
(* Log records written through the logging module.                         *)
(***************************************************************************)
LogError(m) == [level |-> "ERROR", msg |-> m]
LogInfo(m) == [level |-> "INFO", msg |-> m]

IsError(e) == e.level = "ERROR"
NonBlank(s) == Len(s) > 0

(***************************************************************************)
(* read_mac_addresses(file_path).  open_outcome is what open()/readlines() *)
(* does: "ok", "notfound" (FileNotFoundError) or "ioerror" (any other      *)
(* exception); lines are the lines readlines() returns.                    *)
(***************************************************************************)
read_mac_addresses_silent(open_outcome, lines) ==
    IF open_outcome = "ok"
    THEN [ret |-> SelectSeq(SelectSeq(MapStrip(lines), NonBlank), validate_mac_address),
          log |-> <<>>]
    ELSE [ret |-> <<>>, log |-> <<>>]

read_mac_addresses(open_outcome, lines) ==
    IF open_outcome = "ok"
    THEN [ret |-> SelectSeq(SelectSeq(MapStrip(lines), NonBlank), validate_mac_address),
          log |-> <<>>]
    ELSE IF open_outcome = "notfound"
    THEN [ret |-> <<>>, log |-> <<LogError("File not found")>>]
    ELSE [ret |-> <<>>, log |-> <<LogError("Unexpected error reading file")>>]


(***************************************************************************)
(* Python dicts decoded from JSON: functions from field names to values.   *)
(***************************************************************************)
EmptyDict == [k \in {} |-> <<>>]

\* d.get(k, default)
Get(d, k, default) == IF k \in DOMAIN d THEN d[k] ELSE default

\* truth value of d.get(k): the key is present and its value is not ''
TruthyField(d, k) == k \in DOMAIN d /\ Len(d[k]) > 0

\* truth value of a dict: it is not empty
TruthyDict(d) == DOMAIN d # {}

\* d[k] = v on a copy of d
Put(d, k, v) == [x \in DOMAIN d \cup {k} |-> IF x = k THEN v ELSE d[x]]

(***************************************************************************)
(* The vendor API, an external collaborator: any request may raise a       *)
(* requests.exceptions.RequestException, answer with a status other than   *)
(* 200, or answer 200 with one of the JSON objects below.  Numbers are     *)
(* written as their decimal text.                                          *)
(***************************************************************************)
BodyDesk == [description |-> DESK1, vlan |-> TEN]
BodyWired == [description |-> DESK1, ip |-> IPADDR, switchSerial |-> SERIAL1,
              switchPort |-> PORT, ssid |-> <<>>]
BodyWireless == [ip |-> IPADDR, ssid |-> CORP]
BodySwitch == [name |-> SW1, model |-> MS120]

Bodies == {EmptyDict, BodyDesk, BodyWired, BodyWireless, BodySwitch}

Responses ==
    {[exc |-> TRUE, status |-> 0, json |-> EmptyDict],
     [exc |-> FALSE, status |-> 404, json |-> EmptyDict]}
    \cup {[exc |-> FALSE, status |-> 200, json |-> b] : b \in Bodies}

(***************************************************************************)
(* get_device_or_switch_details(serial), with the module-level dict        *)
(* switch_cache passed in and the updated dict passed out.  resp is the    *)
(* outcome of requests.get and is looked at only when a request is made.   *)
(***************************************************************************)
get_device_or_switch_details_uncached(serial, cache, resp) ==
    IF resp.exc
    THEN [ret |-> EmptyDict, cache |-> cache, requested |-> TRUE, ok |-> FALSE,
          log |-> <<LogError("Network request exception")>>]
    ELSE IF resp.status = 200
    THEN [ret |-> resp.json, cache |-> Put(cache, serial, resp.json),
          requested |-> TRUE, ok |-> TRUE, log |-> <<>>]
    ELSE [ret |-> EmptyDict, cache |-> cache, requested |-> TRUE, ok |-> FALSE,
          log |-> <<LogError("Error fetching details")>>]

get_device_or_switch_details_cache_failure(serial, cache, resp) ==
    IF serial \in DOMAIN cache
    THEN [ret |-> cache[serial], cache |-> cache, requested |-> FALSE, ok |-> TRUE,
          log |-> <<>>]
    ELSE IF resp.exc
    THEN [ret |-> EmptyDict, cache |-> Put(cache, serial, EmptyDict),
          requested |-> TRUE, ok |-> FALSE,
          log |-> <<LogError("Network request exception")>>]
    ELSE IF resp.status = 200
    THEN [ret |-> resp.json, cache |-> Put(cache, serial, resp.json),
          requested |-> TRUE, ok |-> TRUE, log |-> <<>>]
    ELSE [ret |-> EmptyDict, cache |-> Put(cache, serial, EmptyDict),
          requested |-> TRUE, ok |-> FALSE,
          log |-> <<LogError("Error fetching details")>>]

get_device_or_switch_details(serial, cache, resp) ==
    IF serial \in DOMAIN cache
    THEN [ret |-> cache[serial], cache |-> cache, requested |-> FALSE, ok |-> TRUE,
          log |-> <<>>]
    ELSE IF resp.exc
    THEN [ret |-> EmptyDict, cache |-> cache, requested |-> TRUE, ok |-> FALSE,
          log |-> <<LogError("Network request exception")>>]
    ELSE IF resp.status = 200
    THEN [ret |-> resp.json, cache |-> Put(cache, serial, resp.json),
          requested |-> TRUE, ok |-> TRUE, log |-> <<>>]
    ELSE [ret |-> EmptyDict, cache |-> cache, requested |-> TRUE, ok |-> FALSE,
          log |-> <<LogError("Error fetching details")>>]

(***************************************************************************)
(* The report row built in process_mac_addresses: an ordered dict, as a    *)
(* sequence of <<key, value>> pairs in insertion order.                    *)
(***************************************************************************)
Columns == <<"MAC Address", "Connection Type", "Description", "IP",
             "Switch Serial", "Switch Port", "AP Name", "Switch Name",
             "Switch Model">>

make_info_no_default(mac, device_info, switch_details) ==
    <<<<"MAC Address", mac>>,
      <<"Connection Type", IF TruthyField(device_info, "ssid") THEN Wireless ELSE Wired>>,
      <<"Description", Get(device_info, "description", NA)>>,
      <<"IP", Get(device_info, "ip", NA)>>,
      <<"Switch Serial", Get(device_info, "switchSerial", NA)>>,
      <<"Switch Port", Get(device_info, "switchPort", NA)>>,
      <<"AP Name", Get(device_info, "ssid", NA)>>>>
    \o (IF "name" \in DOMAIN switch_details
        THEN <<<<"Switch Name", switch_details["name"]>>>> ELSE <<>>)
    \o <<<<"Switch Model", Get(switch_details, "model", NA)>>>>

make_info(mac, device_info, switch_details) ==
    <<<<"MAC Address", mac>>,
      <<"Connection Type", IF TruthyField(device_info, "ssid") THEN Wireless ELSE Wired>>,
      <<"Description", Get(device_info, "description", NA)>>,
      <<"IP", Get(device_info, "ip", NA)>>,
      <<"Switch Serial", Get(device_info, "switchSerial", NA)>>,
      <<"Switch Port", Get(device_info, "switchPort", NA)>>,
      <<"AP Name", Get(device_info, "ssid", NA)>>,
      <<"Switch Name", Get(switch_details, "name", NA)>>,
      <<"Switch Model", Get(switch_details, "model", NA)>>>>

\* row.keys() and the values of a row in key order
Keys(row) == [i \in 1..Len(row) |-> row[i][1]]
Values(row) == [i \in 1..Len(row) |-> row[i][2]]

\* `if device_info:` -- a row is built for a non-empty record only
row_wanted_always(device_info) == TRUE

row_wanted(device_info) == TruthyDict(device_info)

\* `if device_info_list:` -- the writer is called for a non-empty list only
should_write_always(device_info_list) == TRUE

should_write(device_info_list) == Len(device_info_list) > 0

(***************************************************************************)
(* write_to_csv(file_path, data).  io_ok is whether opening and writing    *)
(* the file succeed.  open(file_path, 'w') truncates the file before       *)
(* data[0] is evaluated, which raises IndexError on an empty list.         *)
(***************************************************************************)
NoFile == [exists |-> FALSE, header |-> <<>>, rows |-> <<>>]

write_to_csv(data, io_ok) ==
    IF ~io_ok
    THEN [raised |-> TRUE, file |-> NoFile, log |-> <<>>]
    ELSE IF Len(data) = 0
    THEN [raised |-> TRUE, file |-> [exists |-> TRUE, header |-> <<>>, rows |-> <<>>],
          log |-> <<>>]
    ELSE [raised |-> FALSE,
          file |-> [exists |-> TRUE, header |-> Keys(data[1]),
                    rows |-> [i \in 1..Len(data) |-> Values(data[i])]],
          log |-> <<LogInfo("Device information successfully written")>>]

(***************************************************************************)
(* Inputs of a run: the command line and the input file.                   *)
(***************************************************************************)
\* values of --mac tried, when the option is given
MacArgs == {MAC1, MIXED, BADMAC, MAC1 \o <<NL>>, <<>>}

\* lines of the input file, as readlines() returns them
Lines == {MAC1 \o <<NL>>, MAC2 \o <<NL>>, MIXED \o <<NL>>, BADMAC \o <<NL>>,
          <<NL>>, <<" ", " ">> \o MAC1 \o <<" ", NL>>}

RECURSIVE SeqsUpTo(_, _)
SeqsUpTo(S, n) ==
    IF n = 0 THEN {<<>>}
    ELSE LET shorter == SeqsUpTo(S, n - 1)
         IN shorter \cup {Append(q, x) : q \in {r \in shorter : Len(r) = n - 1}, x \in S}

\* args.mac is None when has_mac is FALSE
Args == [has_mac : {FALSE}, mac : {<<>>}] \cup [has_mac : {TRUE}, mac : MacArgs]

\* the file named by --file: "absent" (os.path.exists is false), "vanished"
\* (it exists when checked and open() raises FileNotFoundError),
\* "unreadable" (open() or readlines() raises another exception), or "ok"
Files == [status : {"absent", "vanished", "unreadable"}, lines : {<<>>}]
         \cup [status : {"ok"}, lines : SeqsUpTo(Lines, MaxLines)]

VARIABLES
    args,               \* parsed command line
    fs,                 \* the input file
    pc,                 \* position of the run
    mac_addresses,      \* main: list of addresses to process
    idx,                \* process_mac_addresses: position of the for loop
    device_info,        \* process_mac_addresses: record of the current item
    switch_details,     \* process_mac_addresses: switch record of the current item
    device_info_list,   \* process_mac_addresses: rows built so far
    switch_cache,       \* module-level cache, serial -> record
    log,                \* records appended to device_lookup.log by this run
    calls,              \* calls of get_device_or_switch_details made so far
    writer_calls,       \* data arguments write_to_csv was called with
    csv_file,           \* device_info.csv
    v_in,               \* argument of a direct call of validate_mac_address
    v_out,              \* its result
    v_pc                \* position of the direct call

vars == <<args, fs, pc, mac_addresses, idx, device_info, switch_details,
          device_info_list, switch_cache, log, calls, writer_calls, csv_file,
          v_in, v_out, v_pc>>

run_vars == <<args, fs, pc, mac_addresses, idx, device_info, switch_details,
              device_info_list, switch_cache, log, calls, writer_calls, csv_file>>

InitRun ==
    /\ pc = "main"
    /\ mac_addresses = <<>>
    /\ idx = 1
    /\ device_info = EmptyDict
    /\ switch_details = EmptyDict
    /\ device_info_list = <<>>
    /\ switch_cache = EmptyDict
    /\ log = <<>>
    /\ calls = <<>>
    /\ writer_calls = <<>>
    /\ csv_file = NoFile

Init ==
    /\ args \in Args
    /\ fs \in Files
    /\ InitRun
    /\ v_in = <<>>
    /\ v_out = FALSE
    /\ v_pc = "idle"

(***************************************************************************)
(* main(), up to the call of process_mac_addresses.                        *)
(***************************************************************************)
\* truth value of args.mac: the option was given and is not ''
HasMac(a) == a.has_mac /\ Len(a.mac) > 0

\* what open() does on a file of the given status
OpenOutcome(status) ==
    IF status = "ok" THEN "ok"
    ELSE IF status = "vanished" THEN "notfound" ELSE "ioerror"

main_resolve(a, f) ==
    IF HasMac(a)
    THEN IF validate_mac_address(a.mac)
         THEN [macs |-> <<a.mac>>, log |-> <<>>]
         ELSE [macs |-> <<>>, log |-> <<LogError("Invalid MAC address provided")>>]
    ELSE IF f.status # "absent"
         THEN LET r == read_mac_addresses(OpenOutcome(f.status), f.lines)
              IN [macs |-> r.ret, log |-> r.log]
         ELSE [macs |-> <<>>, log |-> <<LogError("MAC address file not found")>>]

main ==
    /\ pc = "main"
    /\ LET m == main_resolve(args, fs)
       IN /\ mac_addresses' = m.macs
          /\ log' = log \o m.log
          /\ pc' = IF Len(m.macs) > 0 THEN "device" ELSE "done"
    /\ UNCHANGED <<args, fs, idx, device_info, switch_details, device_info_list,
                   switch_cache, calls, writer_calls, csv_file, v_in, v_out, v_pc>>

(***************************************************************************)
(* process_mac_addresses: the body of the for loop, one call of            *)
(* get_device_or_switch_details per step.                                  *)
(***************************************************************************)
Call(item, role, serial, r) ==
    [item |-> item, role |-> role, serial |-> serial, requested |-> r.requested,
     ok |-> r.ok, ret |-> r.ret]

\* position after the current item
NextItem(i) == IF i + 1 <= Len(mac_addresses) THEN "device" ELSE "finish"

lookup_device ==
    /\ pc = "device"
    /\ \E resp \in Responses :
         LET mac == mac_addresses[idx]
             r == get_device_or_switch_details(mac, switch_cache, resp)
         IN /\ device_info' = r.ret
            /\ switch_cache' = r.cache
            /\ log' = log \o r.log
            /\ calls' = Append(calls, Call(idx, "device", mac, r))
            /\ switch_details' = EmptyDict
            /\ IF row_wanted(r.ret)
               THEN /\ pc' = IF TruthyField(r.ret, "switchSerial") THEN "switch" ELSE "flatten"
                    /\ idx' = idx
               ELSE /\ pc' = NextItem(idx)
                    /\ idx' = idx + 1
    /\ UNCHANGED <<args, fs, mac_addresses, device_info_list, writer_calls, csv_file,
                   v_in, v_out, v_pc>>

lookup_switch ==
    /\ pc = "switch"
    /\ \E resp \in Responses :
         LET serial == Get(device_info, "switchSerial", <<>>)
             r == get_device_or_switch_details(serial, switch_cache, resp)
         IN /\ switch_details' = r.ret
            /\ switch_cache' = r.cache
            /\ log' = log \o r.log
            /\ calls' = Append(calls, Call(idx, "switch", serial, r))
    /\ pc' = "flatten"
    /\ UNCHANGED <<args, fs, mac_addresses, idx, device_info, device_info_list,
                   writer_calls, csv_file, v_in, v_out, v_pc>>

flatten ==
    /\ pc = "flatten"
    /\ device_info_list' =
           Append(device_info_list, make_info(mac_addresses[idx], device_info, switch_details))
    /\ idx' = idx + 1
    /\ pc' = NextItem(idx)
    /\ UNCHANGED <<args, fs, mac_addresses, device_info, switch_details, switch_cache,
                   log, calls, writer_calls, csv_file, v_in, v_out, v_pc>>

(***************************************************************************)
(* The end of process_mac_addresses and of main: the CSV file is written   *)
(* when there is a row, then main logs that processing completed.  An      *)
(* exception raised by write_to_csv is not caught and ends the run.        *)
(***************************************************************************)
finish ==
    /\ pc = "finish"
    /\ IF should_write(device_info_list)
       THEN \E io_ok \in BOOLEAN :
              LET w == write_to_csv(device_info_list, io_ok)
              IN /\ writer_calls' = Append(writer_calls, device_info_list)
                 /\ csv_file' = IF w.file.exists THEN w.file ELSE csv_file
                 /\ IF w.raised
                    THEN /\ pc' = "crashed"
                         /\ log' = log \o w.log
                    ELSE /\ pc' = "done"
                         /\ log' = log \o w.log
                                   \o <<LogInfo("Device information processing completed")>>
       ELSE /\ pc' = "done"
            /\ log' = log \o <<LogInfo("Device information processing completed")>>
            /\ UNCHANGED <<writer_calls, csv_file>>
    /\ UNCHANGED <<args, fs, mac_addresses, idx, device_info, switch_details,
                   device_info_list, switch_cache, calls, v_in, v_out, v_pc>>

Next == main \/ lookup_device \/ lookup_switch \/ flatten \/ finish

Spec == Init /\ [][Next]_vars

(***************************************************************************)
(* A direct call of validate_mac_address on an arbitrary string.  The      *)
(* strings tried are six two-character groups joined by five separators    *)
(* and followed by a suffix, each part drawn independently, and a few      *)
(* strings of other shapes.                                                *)
(***************************************************************************)
GroupChoices == {<<"a", "9">>, <<"G", "1">>}
SepChoices == {":", "-", "."}
SuffixChoices == {<<>>, <<NL>>, <<"x">>, <<NL, NL>>}

Build(g, sp, suffix) ==
    g[1] \o <<sp[1]>> \o g[2] \o <<sp[2]>> \o g[3] \o <<sp[3]>> \o g[4] \o <<sp[4]>>
    \o g[5] \o <<sp[5]>> \o g[6] \o suffix

OtherShapes == {<<>>, <<NL>>, <<NL>> \o MAC1, <<" ">> \o MAC1, SubSeq(MAC1, 1, 14),
                SubSeq(MAC1, 1, 16), MAC1 \o <<":">> \o <<"0", "0">>, MAC2,
                <<"A", "A", "B", "B", "C", "C", "D", "D", "E", "E", "F", "F">>}

ValidateInputs ==
    {Build(g, sp, suffix) : g \in [1..6 -> GroupChoices], sp \in [1..5 -> SepChoices],
                            suffix \in SuffixChoices}
    \cup OtherShapes

InitValidate ==
    /\ args = [has_mac |-> FALSE, mac |-> <<>>]
    /\ fs = [status |-> "absent", lines |-> <<>>]
    /\ InitRun
    /\ v_in \in ValidateInputs
    /\ v_out = FALSE
    /\ v_pc = "call"

validate_call ==
    /\ v_pc = "call"
    /\ v_out' = validate_mac_address(v_in)
    /\ v_pc' = "returned"
    /\ UNCHANGED v_in
    /\ UNCHANGED run_vars

NextValidate == validate_call

SpecValidate == InitValidate /\ [][NextValidate]_vars

(***************************************************************************)
(* Definitions used to state the properties.                               *)
(***************************************************************************)
\* s is six groups of two hexadecimal digits joined by five separators that
\* are all ':' or all '-', and nothing else
IsUniformMac(s) ==
    /\ Len(s) = 17
    /\ \E sep \in {":", "-"} :
         \A p \in 1..17 : IF p % 3 = 0 THEN s[p] = sep ELSE s[p] \in HexDigits

Errors(l) == SelectSeq(l, IsError)

IsDeviceCall(c) == c.role = "device"
IsSwitchCall(c) == c.role = "switch"
IsFailure(c) == c.requested /\ ~c.ok
IsSuccess(c) == c.requested /\ c.ok

DeviceCalls == SelectSeq(calls, IsDeviceCall)

\* the run is past the for loop of process_mac_addresses
LoopOver == pc \in {"finish", "done", "crashed"} /\ Len(mac_addresses) > 0

\* value of column col in a row
ValueOf(row, col) == row[CHOOSE i \in 1..Len(row) : row[i][1] = col][2]

\* the CSV file has column col and its first data row holds v there
CsvCell(col, v) ==
    \E j \in 1..Len(csv_file.header) :
        csv_file.header[j] = col /\ csv_file.rows[1][j] = v

(***************************************************************************)
(* C1: for every string s, validate_mac_address(s) is true if and only if  *)
(* s is exactly six groups of two hexadecimal digits joined by five        *)
(* separators that are all ':' or all '-'; mixed separators and a trailing *)
(* newline are rejected.                                                   *)
(***************************************************************************)
C1_ValidateIffUniformMac ==
    v_pc = "returned" => (v_out <=> IsUniformMac(v_in))

(***************************************************************************)
(* C2: once a call of get_device_or_switch_details for a serial has        *)
(* returned the record of a 200 response, every later call for the same    *)
(* serial returns that record and makes no network request, whatever calls *)
(* happen in between; the record stays in the cache.                       *)
(***************************************************************************)
C2_CachedAfterSuccess ==
    \A i \in 1..Len(calls) :
        IsSuccess(calls[i]) =>
            /\ calls[i].serial \in DOMAIN switch_cache
            /\ switch_cache[calls[i].serial] = calls[i].ret
            /\ \A j \in (i + 1)..Len(calls) :
                 calls[j].serial = calls[i].serial =>
                     ~calls[j].requested /\ calls[j].ret = calls[i].ret

\* a serial fetched successfully, another serial looked up, and the first
\* serial then served from the cache
C2_Witness ==
    \E i, k, j \in 1..Len(calls) :
        /\ i < k /\ k < j
        /\ IsSuccess(calls[i])
        /\ calls[k].serial # calls[i].serial
        /\ calls[j].serial = calls[i].serial
        /\ ~calls[j].requested

(***************************************************************************)
(* C3: a failed lookup (exception or status other than 200) returns an     *)
(* empty record, logs one error and leaves the cache unchanged; a call for *)
(* a serial that is not cached makes a network request, so a failed serial *)
(* is requested again; the cache only changes by storing the record of a   *)
(* successful response, and every cached record came from one.             *)
(***************************************************************************)
C3_CacheFromSuccess ==
    \A s \in DOMAIN switch_cache :
        \E i \in 1..Len(calls) :
            IsSuccess(calls[i]) /\ calls[i].serial = s /\ calls[i].ret = switch_cache[s]

C3_RetryAfterFailure ==
    \A i \in 1..Len(calls) : \A j \in (i + 1)..Len(calls) :
        (/\ IsFailure(calls[i])
         /\ calls[j].serial = calls[i].serial
         /\ \A k \in (i + 1)..(j - 1) : calls[k].serial # calls[i].serial)
        => calls[j].requested

C3_CallStep ==
    IF Len(calls') > Len(calls)
    THEN LET c == calls'[Len(calls')]
         IN /\ IsFailure(c) =>
                  /\ c.ret = EmptyDict
                  /\ switch_cache' = switch_cache
                  /\ c.serial \notin DOMAIN switch_cache'
                  /\ Len(Errors(log')) = Len(Errors(log)) + 1
            /\ c.serial \notin DOMAIN switch_cache => c.requested
            /\ switch_cache' # switch_cache =>
                  IsSuccess(c) /\ switch_cache' = Put(switch_cache, c.serial, c.ret)
    ELSE switch_cache' = switch_cache

C3_FailureNotCached ==
    [][C3_CallStep /\ C3_CacheFromSuccess' /\ C3_RetryAfterFailure']_vars

\* the same serial looked up twice, both lookups failing and both making a
\* network request
C3_Witness ==
    \E i, j \in 1..Len(calls) :
        /\ i < j
        /\ calls[i].serial = calls[j].serial
        /\ IsFailure(calls[i])
        /\ IsFailure(calls[j])
        /\ switch_cache = EmptyDict

(***************************************************************************)
(* C4: once the loop over a batch is over, every input item has been       *)
(* looked up once, in input order; the rows are one row per item whose     *)
(* lookup returned a non-empty record, in input order, duplicates kept;    *)
(* every failed lookup logged one error; the writer is handed these rows.  *)
(***************************************************************************)
RECURSIVE MacsWithRecord(_)
MacsWithRecord(dev) ==
    IF Len(dev) = 0 THEN <<>>
    ELSE LET c == dev[Len(dev)]
             before == MacsWithRecord(SubSeq(dev, 1, Len(dev) - 1))
         IN IF TruthyDict(c.ret) THEN Append(before, c.serial) ELSE before

C4_RowsPerResolvedItem ==
    LoopOver =>
        /\ Len(DeviceCalls) = Len(mac_addresses)
        /\ \A i \in 1..Len(DeviceCalls) :
             DeviceCalls[i].item = i /\ DeviceCalls[i].serial = mac_addresses[i]
        /\ [i \in 1..Len(device_info_list) |-> ValueOf(device_info_list[i], "MAC Address")]
               = MacsWithRecord(DeviceCalls)
        /\ Len(Errors(log)) = Len(SelectSeq(calls, IsFailure))
        /\ \A w \in 1..Len(writer_calls) : writer_calls[w] = device_info_list

\* a batch whose first lookup failed and whose second item still got a row
\* that was handed to the writer
C4_Witness ==
    /\ pc = "done"
    /\ Len(DeviceCalls) = 2
    /\ IsFailure(DeviceCalls[1])
    /\ TruthyDict(DeviceCalls[2].ret)
    /\ Len(writer_calls) = 1
    /\ Len(writer_calls[1]) = 1

(***************************************************************************)
(* C5: write_to_csv is never called with an empty list of rows: a run      *)
(* whose input list is empty makes no lookup and does not write, a run     *)
(* whose lookups produced no row does not write, and a write happens only  *)
(* after the loop over a non-empty input list.                             *)
(***************************************************************************)
C5_WriterNeverGetsEmpty ==
    /\ \A w \in 1..Len(writer_calls) : Len(writer_calls[w]) > 0
    /\ Len(writer_calls) > 0 =>
          pc \in {"done", "crashed"} /\ Len(mac_addresses) > 0 /\ idx = Len(mac_addresses) + 1
    /\ (pc = "done" /\ (Len(mac_addresses) = 0 \/ Len(device_info_list) = 0)) =>
          Len(writer_calls) = 0 /\ ~csv_file.exists
    /\ (pc # "main" /\ Len(mac_addresses) = 0) => pc = "done" /\ Len(calls) = 0

\* a run that made lookups, got no row and ended without calling the writer
C5_Witness ==
    /\ pc = "done"
    /\ Len(calls) > 0
    /\ Len(device_info_list) = 0
    /\ Len(writer_calls) = 0

(***************************************************************************)
(* C6: every row has the same fixed keys in the same order, and each       *)
(* column read from a field of the device record or of the switch record   *)
(* holds "N/A" when that field is absent, also when the switch lookup      *)
(* failed; no key is missing.                                              *)
(***************************************************************************)
DeviceColumns == {<<"Description", "description">>, <<"IP", "ip">>,
                  <<"Switch Serial", "switchSerial">>, <<"Switch Port", "switchPort">>,
                  <<"AP Name", "ssid">>}
SwitchColumns == {<<"Switch Name", "name">>, <<"Switch Model", "model">>}

C6_FlattenStep ==
    pc = "flatten" =>
        LET row == device_info_list'[Len(device_info_list')]
        IN /\ Len(device_info_list') = Len(device_info_list) + 1
           /\ Keys(row) = Columns
           /\ \A cf \in DeviceColumns :
                IF cf[2] \in DOMAIN device_info
                THEN ValueOf(row, cf[1]) = device_info[cf[2]]
                ELSE ValueOf(row, cf[1]) = NA
           /\ \A cf \in SwitchColumns :
                IF cf[2] \in DOMAIN switch_details
                THEN ValueOf(row, cf[1]) = switch_details[cf[2]]
                ELSE ValueOf(row, cf[1]) = NA
           /\ \A r \in 1..Len(device_info_list') :
                Keys(device_info_list'[r]) = Keys(device_info_list'[1])

C6_RowsHaveFixedKeys == [][C6_FlattenStep]_vars

\* a row built after the switch lookup of its item failed
C6_Witness ==
    /\ Len(device_info_list) > 0
    /\ \E k \in 1..Len(calls) :
         /\ IsSwitchCall(calls[k])
         /\ IsFailure(calls[k])
         /\ calls[k].item < idx
    /\ ValueOf(device_info_list[Len(device_info_list)], "Switch Name") = NA
    /\ ValueOf(device_info_list[Len(device_info_list)], "Switch Serial") = SERIAL1

(***************************************************************************)
(* C7: read_mac_addresses on a readable file returns the lines that are    *)
(* valid MAC addresses after stripping surrounding whitespace, in file     *)
(* order, duplicates kept.                                                 *)
(***************************************************************************)
C7_ReadReturnsValidLines ==
    (pc # "main" /\ ~HasMac(args) /\ fs.status = "ok") =>
        mac_addresses = SelectSeq(MapStrip(fs.lines), IsUniformMac)

(***************************************************************************)
(* C8: when --mac is given with an invalid address the run makes no        *)
(* lookup, writes no CSV and logs exactly one validation error, whatever   *)
(* --file names.                                                           *)
(***************************************************************************)
C8_InvalidMacStopsRun ==
    (pc # "main" /\ args.has_mac /\ ~IsUniformMac(args.mac)) =>
        /\ pc = "done"
        /\ Len(calls) = 0
        /\ Len(writer_calls) = 0
        /\ ~csv_file.exists
        /\ log = <<LogError("Invalid MAC address provided")>>

(***************************************************************************)
(* C9: for an input file holding AA:BB:CC:DD:EE:FF and one blank line and  *)
(* an API answering {"description": "desk1", "vlan": 10}, the CSV file has *)
(* exactly one data row, with MAC AA:BB:CC:DD:EE:FF, Description desk1 and *)
(* VLAN 10.                                                                *)
(***************************************************************************)
C9_EndToEndRow ==
    (/\ pc = "done"
     /\ ~args.has_mac
     /\ fs = [status |-> "ok", lines |-> <<MAC1 \o <<NL>>, <<NL>>>>]
     /\ Len(calls) > 0
     /\ \A i \in 1..Len(calls) : IsSuccess(calls[i]) /\ calls[i].ret = BodyDesk)
    => /\ csv_file.exists
       /\ Len(csv_file.rows) = 1
       /\ CsvCell("MAC Address", MAC1)
       /\ CsvCell("Description", DESK1)
       /\ CsvCell("VLAN", TEN)

(***************************************************************************)
(* C10: when the input file is missing or unreadable the list of addresses *)
(* is empty, exactly one error is logged, no exception ends the run, no    *)
(* network request is made and no CSV is written.                          *)
(***************************************************************************)
C10_MissingFileStopsRun ==
    (pc # "main" /\ ~HasMac(args) /\ fs.status # "ok") =>
        /\ pc = "done"
        /\ mac_addresses = <<>>
        /\ Len(Errors(log)) = 1
        /\ Len(log) = 1
        /\ Len(calls) = 0
        /\ Len(writer_calls) = 0
        /\ ~csv_file.exists

\* read_mac_addresses was called on a file that open() did not find
C10_Witness ==
    /\ pc = "done"
    /\ ~HasMac(args)
    /\ fs.status = "vanished"
    /\ log = <<LogError("File not found")>>

=============================================================================
